---- MODULE Spec2Model ----
(***************************************************************************)
(* Content collection pipeline of portfolio-next                           *)
(* (src/content-collections.ts): the posts and projects collections, their *)
(* zod schemas, their transform functions (slug, readTime, publishDate,    *)
(* html) and the records the pages read.                                   *)
(*                                                                         *)
(* Text is modelled as a sequence of one-character strings.  A body text   *)
(* is a sequence of items: the characters " ", "\n", "<", ">", the item    *)
(* "FENCE" (three backticks; backticks occur only as fence delimiters) and *)
(* word runs: "W1" is one word, "W300" is 300 words separated by single    *)
(* spaces.                                                                 *)
(***************************************************************************)
EXTENDS Integers, Sequences, FiniteSets, TLC

VARIABLES
    fileName,     \* slug derivation: document._meta.fileName
    slugOut,      \* slug derivation: the derived slug
    slugPc,       \* slug derivation: "init" | "done"
    content,      \* read time: document.content
    rtOut,        \* read time: the string readTime returned
    rtPc,         \* read time: "init" | "done"
    loaded,       \* build: the source documents the build has processed
    allPosts,     \* build: the posts collection, in enumeration order
    allProjects,  \* build: the projects collection, in enumeration order
    failures,     \* build: the documents that failed schema validation
    frontMatter,  \* validation: the collection and the front-matter data
    valOut,       \* validation: the result of parsing the data
    valPc,        \* validation: "init" | "done"
    rendered,     \* site: what the page rendered last returned
    contact,      \* contact form: the values, the submission, the send calls
    share         \* share buttons: the url, the indicator, the timers

vars == <<fileName, slugOut, slugPc, content, rtOut, rtPc,
          loaded, allPosts, allProjects, failures,
          frontMatter, valOut, valPc, rendered, contact, share>>

slugVars == <<fileName, slugOut, slugPc>>
rtVars == <<content, rtOut, rtPc>>
buildVars == <<loaded, allPosts, allProjects, failures>>
valVars == <<frontMatter, valOut, valPc>>
siteVars == <<rendered>>
uiVars == <<contact, share>>

----------------------------------------------------------------------------
(* Bounds *)

\* longest file-name stem (the part before the final extension) drawn
MaxStem == 5
\* longest body text drawn, in items
MaxBody == 4
\* most documents one build processes, over both kinds
MaxDocs == 2
\* most fields of a front-matter that differ from the complete document
MaxDefects == 2
\* most posts and most projects of the registry the pages read
MaxPosts == 3
MaxProjects == 2
\* most submissions of the contact form
MaxSubmits == 2
\* most clicks on Copy link
MaxCopies == 3

----------------------------------------------------------------------------
(* Text helpers: String.prototype.replaceAll / replace / toLowerCase *)

RECURSIVE SeqsUpTo(_, _)
SeqsUpTo(S, n) ==
    IF n = 0 THEN {<<>>}
    ELSE LET shorter == SeqsUpTo(S, n - 1)
         IN  shorter \cup {Append(s, c) : s \in shorter, c \in S}

\* s.replaceAll(from, to) for one-character from and to
ReplaceAll(s, from, to) ==
    [i \in 1..Len(s) |-> IF s[i] = from THEN to ELSE s[i]]

\* the indices at which pat occurs in s
Occurrences(s, pat) ==
    {i \in 1..(Len(s) - Len(pat) + 1) : SubSeq(s, i, i + Len(pat) - 1) = pat}

Min(S) == CHOOSE x \in S : \A y \in S : x <= y

\* s.replace(pat, rep) with a string pattern: only the first occurrence
ReplaceFirst(s, pat, rep) ==
    IF Occurrences(s, pat) = {} THEN s
    ELSE LET i == Min(Occurrences(s, pat))
         IN  SubSeq(s, 1, i - 1) \o rep \o SubSeq(s, i + Len(pat), Len(s))

UpperToLower ==
    [c \in {"A", "B", "D", "M", "P"} |->
        CASE c = "A" -> "a" [] c = "B" -> "b" [] c = "D" -> "d"
          [] c = "M" -> "m" [] c = "P" -> "p"]

\* s.toLowerCase()
ToLowerCase(s) ==
    [i \in 1..Len(s) |->
        IF s[i] \in DOMAIN UpperToLower THEN UpperToLower[s[i]] ELSE s[i]]

DotMd == <<".", "m", "d">>

\* include: "*.md": the glob is case-sensitive and its star matches no
\* leading dot
Include(name) ==
    /\ Len(name) > Len(DotMd)
    /\ name[1] # "."
    /\ SubSeq(name, Len(name) - Len(DotMd) + 1, Len(name)) = DotMd

\* a variant of Slug that reads the registry: the slug of a document
\* processed after a post carries a trailing hyphen
SlugAfterPosts(name) ==
    IF Len(allPosts) > 0
    THEN ToLowerCase(ReplaceFirst(ReplaceAll(name, " ", "-"), DotMd, <<>>))
             \o <<"-">>
    ELSE ToLowerCase(ReplaceFirst(ReplaceAll(name, " ", "-"), DotMd, <<>>))

----------------------------------------------------------------------------
(* slug: fileName.replaceAll(" ", "-").replace(".md", "").toLowerCase() *)

Slug(name) ==
    ToLowerCase(ReplaceFirst(ReplaceAll(name, " ", "-"), DotMd, <<>>))

----------------------------------------------------------------------------
(* readTime *)

wordsPerMinute == 300

IsWhitespace(c) == c \in {" ", "\n"}

\* the words a word-run item stands for
WordsOf(c) == CASE c = "W1" -> 1 [] c = "W300" -> 300 [] OTHER -> 0

\* the whitespace characters inside an item
WhitespaceIn(c) ==
    IF IsWhitespace(c) THEN 1
    ELSE IF WordsOf(c) > 0 THEN WordsOf(c) - 1
    ELSE 0

\* a global regex replace by the empty string, scanned from index i: a
\* match starts at the first open that has a close after it and ends at
\* the first such close; the scan resumes behind the match
RECURSIVE RemoveMatches(_, _, _, _)
RemoveMatches(text, open, close, i) ==
    IF i > Len(text) THEN <<>>
    ELSE LET ends == {k \in (i + 1)..Len(text) : text[k] = close}
         IN  IF text[i] = open /\ ends # {}
             THEN RemoveMatches(text, open, close, Min(ends) + 1)
             ELSE <<text[i]>> \o RemoveMatches(text, open, close, i + 1)

\* the first replace of readTime: a "<", any characters but ">", a ">"
StripTags(text) == RemoveMatches(text, "<", ">", 1)

\* the second replace of readTime: a fence delimiter, the fewest characters
\* of any kind, a fence delimiter
StripFences(text) == RemoveMatches(text, "FENCE", "FENCE", 1)

cleanText(text) == StripFences(StripTags(text))

RECURSIVE SumWhitespace(_)
SumWhitespace(text) ==
    IF text = <<>> THEN 0
    ELSE WhitespaceIn(Head(text)) + SumWhitespace(Tail(text))

\* the words of a text, for comparison with the split: the item at i begins
\* a non-empty token
StartsToken(text, i) ==
    /\ ~IsWhitespace(text[i])
    /\ i = 1 \/ IsWhitespace(text[i - 1])

\* the non-empty whitespace-delimited tokens of text: the tokens that begin
\* at an item, and the further words of each word run
NonEmptyTokens(text) ==
    LET RECURSIVE Count(_)
        Count(i) ==
            IF i > Len(text) THEN 0
            ELSE (IF StartsToken(text, i) THEN 1 ELSE 0)
                 + (IF WordsOf(text[i]) > 0 THEN WordsOf(text[i]) - 1 ELSE 0)
                 + Count(i + 1)
    IN  Count(1)

\* a variant of SplitLength: the empty strings of the split not counted
SplitLengthNonEmpty(text) == NonEmptyTokens(text)

\* the length of the split at every single whitespace character: one more
\* than the whitespace characters
SplitLength(text) == 1 + SumWhitespace(text)

\* Math.ceil(n / d) for integers n >= 0, d > 0
Ceil(n, d) == (n + d - 1) \div d

Digit(n) == CASE n = 0 -> "0" [] n = 1 -> "1" [] n = 2 -> "2" [] n = 3 -> "3"
              [] n = 4 -> "4" [] n = 5 -> "5" [] n = 6 -> "6" [] n = 7 -> "7"
              [] n = 8 -> "8" [] n = 9 -> "9"

\* String(n) for an integer n >= 0
RECURSIVE NumberToString(_)
NumberToString(n) ==
    IF n < 10 THEN <<Digit(n)>>
    ELSE Append(NumberToString(n \div 10), Digit(n % 10))

\* the template string: the number, then " min read"
readTime(text) ==
    LET noOfWords == SplitLength(cleanText(text))
    IN  Append(NumberToString(Ceil(noOfWords, wordsPerMinute)), " min read")

----------------------------------------------------------------------------
(* Front-matter values, as the YAML parser hands them to the schema *)

Str(s) == [type |-> "string", str |-> s, num |-> 0, items |-> <<>>]
Num(n) == [type |-> "number", str |-> "", num |-> n, items |-> <<>>]
Arr(xs) == [type |-> "array", str |-> "", num |-> 0, items |-> xs]

\* the JavaScript value of a front-matter value
ValueOf(v) ==
    CASE v.type = "string" -> v.str
      [] v.type = "number" -> v.num
      [] v.type = "array" -> [i \in 1..Len(v.items) |-> v.items[i].str]

Without(d, f) == [k \in DOMAIN d \ {f} |-> d[k]]
With(d, f, v) == [k \in DOMAIN d \cup {f} |-> IF k = f THEN v ELSE d[k]]

\* { ...a, ...b }: the keys of both, b's value where both have the key
Spread(a, b) ==
    [k \in DOMAIN a \cup DOMAIN b |-> IF k \in DOMAIN b THEN b[k] ELSE a[k]]

----------------------------------------------------------------------------
(* The schemas: z.object of z.string(), z.number(), z.array(z.string()),   *)
(* z.string().optional()                                                   *)

PostSchema ==
    [title |-> "string", publishDate |-> "string", description |-> "string",
     category |-> "string", tags |-> "array", thumbnail |-> "string",
     author |-> "string"]

\* a variant of ProjectSchema: the two links required
ProjectSchemaLinksRequired ==
    [name |-> "string", year |-> "number", studyCase |-> "string",
     description |-> "string", techStack |-> "array", thumbnail |-> "string",
     linkLive |-> "string", linkGithub |-> "string"]

ProjectSchema ==
    [name |-> "string", year |-> "number", studyCase |-> "string",
     description |-> "string", techStack |-> "array", thumbnail |-> "string",
     linkLive |-> "string?", linkGithub |-> "string?"]

\* a variant of HasType: a numeral string taken for a number, as
\* z.coerce.number() does
HasTypeCoercing(t, v) ==
    CASE t \in {"string", "string?"} -> v.type = "string"
      [] t = "number" ->
            v.type = "number" \/ (v.type = "string" /\ v.str = "2024")
      [] t = "array" ->
            /\ v.type = "array"
            /\ \A i \in 1..Len(v.items) : v.items[i].type = "string"

\* a present value has the type a schema entry asks for
HasType(t, v) ==
    CASE t \in {"string", "string?"} -> v.type = "string"
      [] t = "number" -> v.type = "number"
      [] t = "array" ->
            /\ v.type = "array"
            /\ \A i \in 1..Len(v.items) : v.items[i].type = "string"

IsOptional(t) == t = "string?"

\* a variant of Issues: the check stops at the first offending key
IssuesFirstOnly(schema, data) ==
    LET bad == {g \in DOMAIN schema :
                   IF g \in DOMAIN data THEN ~HasType(schema[g], data[g])
                   ELSE ~IsOptional(schema[g])}
    IN  IF bad = {} THEN {}
        ELSE LET f == CHOOSE g \in bad : TRUE
             IN  {[path |-> f,
                   expected |-> schema[f],
                   received |-> IF f \in DOMAIN data THEN data[f].type
                                ELSE "undefined"]}

\* a variant of Issues: a key the schema does not declare is an issue, as
\* with z.object(...).strict()
IssuesStrict(schema, data) ==
    {[path |-> f,
      expected |-> IF f \in DOMAIN schema THEN schema[f] ELSE "never",
      received |-> IF f \in DOMAIN data THEN data[f].type ELSE "undefined"] :
        f \in {g \in DOMAIN schema \cup DOMAIN data :
                  IF g \notin DOMAIN schema THEN TRUE
                  ELSE IF g \in DOMAIN data THEN ~HasType(schema[g], data[g])
                  ELSE ~IsOptional(schema[g])}}

\* the issues of schema.safeParse(data): one for every key of the schema
\* that is missing though required, or present with another type
Issues(schema, data) ==
    {[path |-> f,
      expected |-> schema[f],
      received |-> IF f \in DOMAIN data THEN data[f].type ELSE "undefined"] :
        f \in {g \in DOMAIN schema :
                  IF g \in DOMAIN data THEN ~HasType(schema[g], data[g])
                  ELSE ~IsOptional(schema[g])}}

\* a variant of Parsed: every key of the front-matter is kept, as with
\* z.object(...).passthrough()
ParsedPassthrough(schema, data) == [f \in DOMAIN data |-> ValueOf(data[f])]

\* the parsed data: the keys of the schema that are present (z.object strips
\* the others), each with its value as it is
Parsed(schema, data) ==
    [f \in DOMAIN schema \cap DOMAIN data |-> ValueOf(data[f])]

\* the result of parsing data with a schema: the issues, or the parsed data
SafeParse(schema, data) ==
    [success |-> Issues(schema, data) = {},
     issues |-> Issues(schema, data),
     data |-> IF Issues(schema, data) = {} THEN Parsed(schema, data) ELSE <<>>]

SchemaOf(collection) ==
    IF collection = "posts" THEN PostSchema ELSE ProjectSchema

\* the document the transform receives: the parsed data, content and _meta
Document(schema, name, data, body) ==
    Spread(Parsed(schema, data),
           [content |-> body, _meta |-> [fileName |-> name]])

----------------------------------------------------------------------------
(* The transforms *)

\* the date strings Date parses, with the day they name (days since
\* 1970-01-01); any other string gives an Invalid Date
ParseableDates ==
    [s \in {"2024-01-01", "2025-10-25"} |->
        CASE s = "2024-01-01" -> 19723 [] s = "2025-10-25" -> 20386]

\* new Date(s): never throws
NewDate(s) ==
    IF s \in DOMAIN ParseableDates
    THEN [valid |-> TRUE, day |-> ParseableDates[s]]
    ELSE [valid |-> FALSE, day |-> 0]

\* compileMarkdown(context, document): the markup compiled from the body
compileMarkdown(document) == [compiledFrom |-> document.content]

\* a variant of TransformPost: no readTime
TransformPostNoReadTime(document) ==
    Spread(document,
           [slug |-> Slug(document._meta.fileName),
            publishDate |-> NewDate(document.publishDate),
            html |-> compileMarkdown(document)])

TransformPost(document) ==
    Spread(document,
           [readTime |-> readTime(document.content),
            slug |-> Slug(document._meta.fileName),
            publishDate |-> NewDate(document.publishDate),
            html |-> compileMarkdown(document)])

TransformProject(document) ==
    Spread(document,
           [slug |-> Slug(document._meta.fileName),
            html |-> compileMarkdown(document)])

----------------------------------------------------------------------------
(* The inputs drawn *)

StemChars == {"B", " ", "-", ".", "m", "d"}
Extensions == {<<".", "m", "d">>, <<".", "M", "D">>}

\* the file names a content directory may hold, with stems of up to n
\* characters
FileNames(n) ==
    {stem \o ext : stem \in SeqsUpTo(StemChars, n) \ {<<>>},
                   ext \in Extensions}

BodyItems == {" ", "\n", "<", ">", "FENCE", "W1", "W300"}

\* the body texts of up to n items
Bodies(n) == SeqsUpTo(BodyItems, n)

\* the file names the content directories of a build may hold
DocFileNames ==
    {<<"M", "y", " ", "P", "o", "s", "t", ".", "m", "d">>,
     <<"m", "y", "-", "p", "o", "s", "t", ".", "m", "d">>,
     <<"n", "o", "t", "e", "s", ".", "M", "D">>}

\* the body texts of a build's documents: one paragraph of 300 words, and
\* two of them
DocBodies == {<<"W300">>, <<"W300", "\n", "\n", "W300", "\n">>}

\* front-matter entries named as the fields the transforms derive
AuthoredDerived ==
    [slug |-> Str("authored"), readTime |-> Str("authored"),
     html |-> Str("authored")]

ValidPostData ==
    [title |-> Str("Hello World"), publishDate |-> Str("2024-01-01"),
     description |-> Str("A post"), category |-> Str("Notes"),
     tags |-> Arr(<<Str("a"), Str("b")>>), thumbnail |-> Str("/post.png"),
     author |-> Str("me")]

\* the front-matter of a post: complete, with one field missing, or with
\* one field of another value
PostDatas ==
    {ValidPostData}
    \cup {Without(ValidPostData, f) : f \in DOMAIN ValidPostData}
    \cup {With(ValidPostData, "publishDate", Str("2025-10-25")),
          With(ValidPostData, "publishDate", Str("soon")),
          With(ValidPostData, "tags", Str("a, b")),
          With(ValidPostData, "tags", Arr(<<Str("a"), Num(1)>>)),
          With(ValidPostData, "title", Num(5)),
          With(ValidPostData, "title", Str(" padded ")),
          Spread(ValidPostData, AuthoredDerived)}

ValidProjectData ==
    [name |-> Str("Hub"), year |-> Num(2024), studyCase |-> Str("Personal"),
     description |-> Str("A project"), techStack |-> Arr(<<Str("ts")>>),
     thumbnail |-> Str("/hub.png"), linkLive |-> Str("https://hub.example"),
     linkGithub |-> Str("https://git.example/hub")]

\* the front-matter of a project: complete, with one or both optional links
\* or one required field missing, or with one field of another value
ProjectDatas ==
    {ValidProjectData}
    \cup {Without(ValidProjectData, f) : f \in DOMAIN ValidProjectData}
    \cup {Without(Without(ValidProjectData, "linkLive"), "linkGithub"),
          With(ValidProjectData, "year", Str("2024")),
          With(ValidProjectData, "techStack", Str("ts, tla")),
          With(ValidProjectData, "linkLive", Num(1)),
          Spread(ValidProjectData, AuthoredDerived)}

\* what a front-matter field may hold in place of the complete document's
\* value: nothing, a number, a string (padded with spaces; for a number or
\* an array field a list or a number with trailing characters), a numeral
\* string, an array with an item that is no string
DeviationKinds == {"absent", "number", "string", "numeral", "array"}

Deviant(f, kind) ==
    CASE kind = "number" -> Num(7)
      [] kind = "string" ->
            IF f = "year" THEN Str("2024abc")
            ELSE IF f \in {"tags", "techStack"} THEN Str("a, b")
            ELSE Str(" padded ")
      [] kind = "numeral" -> Str("2024")
      [] kind = "array" -> Arr(<<Str("a"), Num(1)>>)

\* valid with the fields of D changed as c says
Deviate(valid, D, c) ==
    [f \in DOMAIN valid \ {g \in D : c[g] = "absent"} |->
        IF f \in D THEN Deviant(f, c[f]) ELSE valid[f]]

\* the front-matters that differ from valid in at most n fields
DatasNear(valid, n) ==
    UNION {{Deviate(valid, D, c) : c \in [D -> DeviationKinds]} :
              D \in {S \in SUBSET DOMAIN valid : Cardinality(S) <= n}}

\* the fields a front-matter may hold that no schema declares
UndeclaredFields ==
    {<<>>, [draft |-> Str("yes")], [draft |-> Num(1), slug |-> Str("authored")]}

IdleSlug == fileName = <<>> /\ slugOut = <<>> /\ slugPc = "idle"
IdleReadTime == content = <<>> /\ rtOut = <<>> /\ rtPc = "idle"
IdleBuild ==
    /\ loaded = {}
    /\ allPosts = <<>>
    /\ allProjects = <<>>
    /\ failures = {}

\* nothing rendered yet
NoRender ==
    [page |-> "none", slug |-> <<>>, status |-> "none", records |-> <<>>,
     projects |-> <<>>, title |-> "", description |-> "", year |-> <<>>,
     from |-> <<>>, links |-> <<>>]
IdleSite == rendered = NoRender
IdleValidate == frontMatter = <<>> /\ valOut = <<>> /\ valPc = "idle"

\* the contact form as mounted: the default values, nothing submitted
NoContact ==
    [name |-> "", email |-> <<>>, message |-> "", pc |-> "idle",
     calls |-> <<>>, resets |-> 0, toasts |-> 0]

\* the share buttons as mounted without a url prop: useState(false),
\* useState(""), nothing written, no timer set
NoShare ==
    [url |-> "", shareUrl |-> "", copied |-> FALSE, clipboard |-> <<>>,
     writes |-> <<>>, timers |-> {}, timerCount |-> 0]

IdleContact == contact = NoContact
IdleShare == share = NoShare
IdleUi == IdleContact /\ IdleShare

----------------------------------------------------------------------------
(* Slug derivation of one file *)

InitSlug ==
    /\ fileName \in FileNames(MaxStem)
    /\ slugOut = <<>>
    /\ slugPc = "init"
    /\ IdleReadTime
    /\ IdleBuild
    /\ IdleValidate
    /\ IdleSite
    /\ IdleUi

\* the loader hands the transform a file the include pattern matches
DeriveSlug ==
    /\ slugPc = "init"
    /\ Include(fileName)
    /\ slugOut' = Slug(fileName)
    /\ slugPc' = "done"
    /\ UNCHANGED <<fileName, rtVars, buildVars, valVars, siteVars, uiVars>>

SpecSlug == InitSlug /\ [][DeriveSlug]_vars

----------------------------------------------------------------------------
(* Read time of one body *)

InitReadTime ==
    /\ content \in Bodies(MaxBody)
    /\ rtOut = <<>>
    /\ rtPc = "init"
    /\ IdleSlug
    /\ IdleBuild
    /\ IdleValidate
    /\ IdleSite
    /\ IdleUi

EstimateReadTime ==
    /\ rtPc = "init"
    /\ rtOut' = readTime(content)
    /\ rtPc' = "done"
    /\ UNCHANGED <<content, slugVars, buildVars, valVars, siteVars, uiVars>>

SpecReadTime == InitReadTime /\ [][EstimateReadTime]_vars

----------------------------------------------------------------------------
(* The build: every file of a content directory that the include pattern   *)
(* matches is validated against the schema of its collection and, if it    *)
(* has no issue, transformed into a record of the collection               *)

Init ==
    /\ loaded = {}
    /\ allPosts = <<>>
    /\ allProjects = <<>>
    /\ failures = {}
    /\ IdleSlug
    /\ IdleReadTime
    /\ IdleValidate
    /\ IdleSite
    /\ IdleUi

SourceDocument(collection, name, data, body) ==
    [collection |-> collection, fileName |-> name, data |-> data,
     content |-> body]

\* a directory holds one file of a name
CanLoad(collection, name) ==
    /\ Cardinality(loaded) < MaxDocs
    /\ Include(name)
    /\ \A d \in loaded : ~(d.collection = collection /\ d.fileName = name)

BuildPost(name, data, body) ==
    /\ CanLoad("posts", name)
    /\ loaded' = loaded \cup {SourceDocument("posts", name, data, body)}
    /\ IF Issues(PostSchema, data) # {}
       THEN /\ failures' = failures \cup
                   {[collection |-> "posts", fileName |-> name,
                     issues |-> Issues(PostSchema, data)]}
            /\ UNCHANGED allPosts
       ELSE /\ allPosts' =
                   Append(allPosts,
                          TransformPost(Document(PostSchema, name, data, body)))
            /\ UNCHANGED failures
    /\ UNCHANGED <<allProjects, slugVars, rtVars, valVars, siteVars, uiVars>>

BuildProject(name, data, body) ==
    /\ CanLoad("projects", name)
    /\ loaded' = loaded \cup {SourceDocument("projects", name, data, body)}
    /\ IF Issues(ProjectSchema, data) # {}
       THEN /\ failures' = failures \cup
                   {[collection |-> "projects", fileName |-> name,
                     issues |-> Issues(ProjectSchema, data)]}
            /\ UNCHANGED allProjects
       ELSE /\ allProjects' =
                   Append(allProjects,
                          TransformProject(
                              Document(ProjectSchema, name, data, body)))
            /\ UNCHANGED failures
    /\ UNCHANGED <<allPosts, slugVars, rtVars, valVars, siteVars, uiVars>>

Next ==
    \/ \E name \in DocFileNames, data \in PostDatas, body \in DocBodies :
          BuildPost(name, data, body)
    \/ \E name \in DocFileNames, data \in ProjectDatas, body \in DocBodies :
          BuildProject(name, data, body)

Spec == Init /\ [][Next]_vars

----------------------------------------------------------------------------
(* Validation of one front-matter against the schema of its collection *)

InitValidate ==
    /\ \E c \in {"posts", "projects"} :
          \E d \in DatasNear(IF c = "posts" THEN ValidPostData
                             ELSE ValidProjectData, MaxDefects),
             extra \in UndeclaredFields :
                frontMatter = [collection |-> c, data |-> Spread(d, extra)]
    /\ valOut = <<>>
    /\ valPc = "init"
    /\ IdleSlug
    /\ IdleReadTime
    /\ IdleBuild
    /\ IdleSite
    /\ IdleUi

Validate ==
    /\ valPc = "init"
    /\ valOut' = SafeParse(SchemaOf(frontMatter.collection), frontMatter.data)
    /\ valPc' = "done"
    /\ UNCHANGED <<frontMatter, slugVars, rtVars, buildVars, siteVars, uiVars>>

SpecValidate == InitValidate /\ [][Validate]_vars

----------------------------------------------------------------------------
(* The pages and the sitemap, reading the registry a build has generated *)

SiteFileNames ==
    {<<"B", ".", "m", "d">>,
     <<"M", "y", " ", "P", "o", "s", "t", ".", "m", "d">>,
     <<"m", "y", "-", "p", "o", "s", "t", ".", "m", "d">>}
SiteDates == {"2024-01-01", "2025-10-25", "soon"}

PostRecord(name, date) ==
    TransformPost(Document(PostSchema, name,
                           With(ValidPostData, "publishDate", Str(date)),
                           <<"W300">>))

ProjectRecord(name, year) ==
    TransformProject(Document(ProjectSchema, name,
                              With(ValidProjectData, "year", Num(year)),
                              <<"W300">>))

SitePostRecords == {PostRecord(n, d) : n \in SiteFileNames, d \in SiteDates}
SiteProjectRecords ==
    {ProjectRecord(<<"B", "#", ".", "m", "d">>, 2023),
     ProjectRecord(<<"M", "y", " ", "P", "o", "s", "t", ".", "m", "d">>, 2024),
     ProjectRecord(<<"m", "y", "-", "p", "o", "s", "t", ".", "m", "d">>, 2024)}

\* the collections of up to n records, one record for a file name
Registries(records, n) ==
    {rs \in SeqsUpTo(records, n) :
        \A i, j \in 1..Len(rs) :
            i # j => rs[i]._meta.fileName # rs[j]._meta.fileName}

\* the slugs a route may be requested with
SiteSlugs == {Slug(n) : n \in SiteFileNames} \cup {<<"z">>}

\* the values new Date() may give
Clock == {20400, 20401}

\* a variant of Find: the first record, whatever its slug
FindFirstRecord(rs, slug) == IF Len(rs) = 0 THEN <<>> ELSE <<rs[1]>>

\* rs.find((r) => r.slug === slug): the first record of that slug, or
\* undefined (the empty sequence)
Find(rs, slug) ==
    LET hits == {i \in 1..Len(rs) : rs[i].slug = slug}
    IN  IF hits = {} THEN <<>> ELSE <<rs[Min(hits)]>>

\* the orders of 1..n
Orders(n) ==
    {p \in [1..n -> 1..n] : \A i, j \in 1..n : i # j => p[i] # p[j]}

Reordered(rs, p) == [i \in 1..Len(rs) |-> rs[p[i]]]

\* the order in which a stable sort with the comparator b - a leaves the
\* keys: greater first, equal ones in their order
StableDescending(keys) ==
    CHOOSE p \in Orders(Len(keys)) :
        \A i, j \in 1..Len(keys) :
            i < j => \/ keys[p[i]] > keys[p[j]]
                     \/ keys[p[i]] = keys[p[j]] /\ p[i] < p[j]

\* posts.toSorted((a, b) => b.publishDate.getTime() - a.publishDate.getTime()):
\* a new array. getTime() of an Invalid Date is NaN, the comparator is then
\* not consistent and the order is whatever the engine leaves
ToSortedByDate(posts) ==
    IF \A i \in 1..Len(posts) : posts[i].publishDate.valid
    THEN LET keys == [i \in 1..Len(posts) |-> posts[i].publishDate.day]
         IN  {Reordered(posts, StableDescending(keys))}
    ELSE {Reordered(posts, p) : p \in Orders(Len(posts))}

\* projects.toSorted((a, b) => b.year - a.year): a new array
ToSortedByYear(projects) ==
    LET keys == [i \in 1..Len(projects) |-> projects[i].year]
    IN  Reordered(projects, StableDescending(keys))

\* xs.slice(0, n)
SliceFirst(xs, n) == SubSeq(xs, 1, IF Len(xs) < n THEN Len(xs) ELSE n)

Rendered(page, slug, status, records, projects, title, description, year) ==
    [page |-> page, slug |-> slug, status |-> status, records |-> records,
     projects |-> projects, title |-> title, description |-> description,
     year |-> year, from |-> <<>>, links |-> <<>>]

\* the href of a link to a record: the route prefix and the slug, as the
\* template literal joins them
Href(path, slug) == [path |-> path, slug |-> slug]

\* the slug parameter a [slug] route receives when the href is followed:
\* the path ends where a query or a fragment begins
UrlParam(slug) ==
    LET marks == {i \in 1..Len(slug) : slug[i] \in {"#", "?"}}
    IN  IF marks = {} THEN slug ELSE SubSeq(slug, 1, Min(marks) - 1)

InitSite ==
    /\ allPosts \in Registries(SitePostRecords, MaxPosts)
    /\ allProjects \in Registries(SiteProjectRecords, MaxProjects)
    /\ loaded = {}
    /\ failures = {}
    /\ rendered = NoRender
    /\ IdleSlug
    /\ IdleReadTime
    /\ IdleValidate
    /\ IdleUi

\* PostPage of writing/[slug]: the post of the slug, or notFound()
PostPage(slug) ==
    LET post == Find(allPosts, slug)
    IN  /\ rendered' =
              IF post = <<>>
              THEN Rendered("post", slug, "notFound", <<>>, <<>>, "", "", <<>>)
              ELSE Rendered("post", slug, "ok", post, <<>>, post[1].title,
                            post[1].description, <<>>)
        /\ UNCHANGED <<buildVars, slugVars, rtVars, valVars, uiVars>>

\* generateMetadata of writing/[slug]
PostGenerateMetadata(slug) ==
    LET post == Find(allPosts, slug)
    IN  /\ rendered' =
              IF post = <<>>
              THEN Rendered("postMetadata", slug, "metadata", <<>>, <<>>,
                            "Post Not Found", "Post Not Found", <<>>)
              ELSE Rendered("postMetadata", slug, "metadata", <<>>, <<>>,
                            post[1].title, post[1].description, <<>>)
        /\ UNCHANGED <<buildVars, slugVars, rtVars, valVars, uiVars>>

\* ProjectPage of projects/[slug]: the project of the slug, or notFound()
ProjectPage(slug) ==
    LET project == Find(allProjects, slug)
    IN  /\ rendered' =
              IF project = <<>>
              THEN Rendered("project", slug, "notFound", <<>>, <<>>, "", "",
                            <<>>)
              ELSE Rendered("project", slug, "ok", <<>>, project,
                            project[1].name, project[1].description, <<>>)
        /\ UNCHANGED <<buildVars, slugVars, rtVars, valVars, uiVars>>

\* generateMetadata of projects/[slug]
ProjectGenerateMetadata(slug) ==
    LET project == Find(allProjects, slug)
    IN  /\ rendered' =
              IF project = <<>>
              THEN Rendered("projectMetadata", slug, "metadata", <<>>, <<>>,
                            "Not Found", "Project not found", <<>>)
              ELSE Rendered("projectMetadata", slug, "metadata", <<>>, <<>>,
                            project[1].name, project[1].description, <<>>)
        /\ UNCHANGED <<buildVars, slugVars, rtVars, valVars, uiVars>>

\* getLatestPost(): null (the empty sequence) or the first of the sorted
\* posts, for each order the sort may give
getLatestPost ==
    IF Len(allPosts) = 0 THEN {<<>>}
    ELSE {<<posts[1]>> : posts \in ToSortedByDate(allPosts)}

\* Home: the latest post with its link and the first three projects
Home ==
    /\ \E latestPost \in getLatestPost :
          rendered' =
              [Rendered("home",
                       IF latestPost = <<>> THEN <<>> ELSE latestPost[1].slug,
                       "ok", latestPost, SliceFirst(allProjects, 3), "", "",
                       <<>>) EXCEPT
                  !.links = [i \in 1..Len(latestPost) |->
                                Href("/writing/", latestPost[i].slug)]]
    /\ UNCHANGED <<buildVars, slugVars, rtVars, valVars, uiVars>>

\* a variant of WritingPage: the posts sorted in place, as with sort()
WritingPageSortInPlace ==
    /\ \E posts \in ToSortedByDate(allPosts) :
          /\ allPosts' = posts
          /\ rendered' =
                Rendered("writing", <<>>, "ok", posts, <<>>, "", "", <<>>)
    /\ UNCHANGED <<loaded, allProjects, failures, slugVars, rtVars, valVars, uiVars>>

\* WritingPage: the posts sorted by publishDate, in a new array, each with
\* its link
WritingPage ==
    /\ \E orderedPosts \in ToSortedByDate(allPosts) :
          rendered' =
              [Rendered("writing", <<>>, "ok", orderedPosts, <<>>, "", "",
                        <<>>) EXCEPT
                  !.links = [i \in 1..Len(orderedPosts) |->
                                Href("/writing/", orderedPosts[i].slug)]]
    /\ UNCHANGED <<buildVars, slugVars, rtVars, valVars, uiVars>>

\* the first WritingPage of writing/page.tsx: the posts in collection
\* order, each with its link
WritingPageUnsorted ==
    /\ rendered' =
          [Rendered("writingUnsorted", <<>>, "ok", allPosts, <<>>, "", "",
                    <<>>) EXCEPT
              !.links = [i \in 1..Len(allPosts) |->
                            Href("/posts/", allPosts[i].slug)]]
    /\ UNCHANGED <<buildVars, slugVars, rtVars, valVars, uiVars>>

\* the link of the i-th post is followed: the route writing/[slug] renders
\* PostPage with the slug parameter of the URL
FollowPostLink(i) ==
    LET slug == UrlParam(allPosts[i].slug)
        post == Find(allPosts, slug)
    IN  /\ rendered' =
              [Rendered("postLink", slug,
                        IF post = <<>> THEN "notFound" ELSE "ok",
                        post, <<>>, "", "", <<>>) EXCEPT
                  !.from = <<allPosts[i]>>]
        /\ UNCHANGED <<buildVars, slugVars, rtVars, valVars, uiVars>>

\* the link of the i-th project is followed: the route projects/[slug]
\* renders ProjectPage with the slug parameter of the URL
FollowProjectLink(i) ==
    LET slug == UrlParam(allProjects[i].slug)
        project == Find(allProjects, slug)
    IN  /\ rendered' =
              [Rendered("projectLink", slug,
                        IF project = <<>> THEN "notFound" ELSE "ok",
                        <<>>, project, "", "", <<>>) EXCEPT
                  !.from = <<allProjects[i]>>]
        /\ UNCHANGED <<buildVars, slugVars, rtVars, valVars, uiVars>>

\* Projects: the projects in collection order and the latest year
Projects ==
    /\ rendered' =
          Rendered("projects", <<>>, "ok", <<>>, allProjects, "", "",
                   IF Len(allProjects) = 0 THEN <<>>
                   ELSE <<ToSortedByYear(allProjects)[1].year>>)
    /\ UNCHANGED <<buildVars, slugVars, rtVars, valVars, uiVars>>

\* a variant of SitemapEntry: every entry is dated new Date()
SitemapEntryToday(path, slug, lastModified) ==
    [url |-> [site |-> "NEXT_PUBLIC_SITE_URL", path |-> path, slug |-> slug],
     lastModified |-> [valid |-> TRUE, day |-> Min(Clock)]]

SitemapEntry(path, slug, lastModified) ==
    [url |-> [site |-> "NEXT_PUBLIC_SITE_URL", path |-> path, slug |-> slug],
     lastModified |-> lastModified]

\* sitemap(): the three static entries, the posts, the projects
sitemap ==
    /\ \E now \in Clock :
          LET today == [valid |-> TRUE, day |-> now]
              posts == [i \in 1..Len(allPosts) |->
                           SitemapEntry("/writing/", allPosts[i].slug,
                                        allPosts[i].publishDate)]
              projects == [i \in 1..Len(allProjects) |->
                              SitemapEntry("/projects/", allProjects[i].slug,
                                           today)]
          IN  rendered' =
                  [Rendered("sitemap", <<>>, "ok",
                           <<SitemapEntry("", <<>>, today),
                             SitemapEntry("/writing", <<>>, today),
                             SitemapEntry("/projects", <<>>, today)>>
                               \o posts \o projects,
                           <<>>, "", "", <<>>) EXCEPT
                      !.links = [i \in 1..Len(posts) |->
                                    Href(posts[i].url.path, posts[i].url.slug)]]
    /\ UNCHANGED <<buildVars, slugVars, rtVars, valVars, uiVars>>

NextSite ==
    \/ \E slug \in SiteSlugs : PostPage(slug)
    \/ \E slug \in SiteSlugs : PostGenerateMetadata(slug)
    \/ \E slug \in SiteSlugs : ProjectPage(slug)
    \/ \E slug \in SiteSlugs : ProjectGenerateMetadata(slug)
    \/ Home
    \/ WritingPage
    \/ WritingPageUnsorted
    \/ \E i \in 1..Len(allPosts) : FollowPostLink(i)
    \/ \E i \in 1..Len(allProjects) : FollowProjectLink(i)
    \/ Projects
    \/ sitemap

SpecSite == InitSite /\ [][NextSite]_vars

----------------------------------------------------------------------------
(* The contact form: Contact.onSubmit, sendContactEmail, sendEmail *)

Names == {"", "Ann"}
Emails == {<<>>, <<"a">>, <<"a", "@", "x", ".", "i", "o">>}
Messages == {"", "hi"}

\* z.email(): one @ with a local part before it and, after it, a domain of
\* labels separated by dots
IsEmail(e) ==
    LET ats == {i \in 1..Len(e) : e[i] = "@"}
    IN  /\ Cardinality(ats) = 1
        /\ LET at == Min(ats)
               dots == {i \in (at + 1)..Len(e) : e[i] = "."}
           IN  /\ at > 1
               /\ dots # {}
               /\ \A i \in dots : i > at + 1 /\ i < Len(e)

\* schema: name of at least one character, email an e-mail address, message
\* any string
ContactSchemaValid(value) == value.name # "" /\ IsEmail(value.email)

\* what the relay may do with a send call: resolve with a response, which
\* holds the data or an error, or throw
RelayOutcomes ==
    {[kind |-> "returns", value |-> "data"],
     [kind |-> "returns", value |-> "error"],
     [kind |-> "throws", value |-> "E1"],
     [kind |-> "throws", value |-> "E2"]}

Pending == [kind |-> "pending", value |-> ""]

\* sendContactEmail calls sendEmail, which calls resend.emails.send once and
\* awaits it: the call in flight
NewCall(value) ==
    [subject |-> value.name, html |-> value, attempts |-> 1,
     relay |-> Pending, result |-> Pending, logged |-> <<>>,
     confirmed |-> FALSE]

\* a variant of SendEmailSettles: the catch block logs and does not rethrow
SendEmailSwallows(call, outcome) ==
    IF outcome.kind = "throws"
    THEN [call EXCEPT !.relay = outcome,
                      !.logged = Append(@, outcome.value),
                      !.result = [kind |-> "returns", value |-> "undefined"]]
    ELSE [call EXCEPT !.relay = outcome, !.result = outcome]

\* sendEmail after its await: return response, or console.error and throw
\* error
SendEmailSettles(call, outcome) ==
    IF outcome.kind = "throws"
    THEN [call EXCEPT !.relay = outcome,
                      !.logged = Append(@, outcome.value),
                      !.result = [kind |-> "throws", value |-> outcome.value]]
    ELSE [call EXCEPT !.relay = outcome, !.result = outcome]

InitContact ==
    /\ contact = NoContact
    /\ IdleShare
    /\ IdleSlug
    /\ IdleReadTime
    /\ IdleBuild
    /\ IdleValidate
    /\ IdleSite

otherThanContact ==
    <<share, slugVars, rtVars, buildVars, valVars, siteVars>>

\* field.handleChange(e.target.value) of the three fields
ChangeName(v) ==
    /\ contact' = [contact EXCEPT !.name = v]
    /\ UNCHANGED otherThanContact

ChangeEmail(v) ==
    /\ contact' = [contact EXCEPT !.email = v]
    /\ UNCHANGED otherThanContact

ChangeMessage(v) ==
    /\ contact' = [contact EXCEPT !.message = v]
    /\ UNCHANGED otherThanContact

\* onSubmit with the values of a form that validates: sendContactEmail
\* builds the template and calls sendEmail without awaiting it, sendEmail
\* calls the relay; onSubmit awaits sendContactEmail
Submit ==
    /\ contact.pc = "idle"
    /\ Len(contact.calls) < MaxSubmits
    /\ ContactSchemaValid(contact)
    /\ contact' =
          [contact EXCEPT
              !.pc = "submitting",
              !.calls = Append(@, NewCall([name |-> contact.name,
                                           email |-> contact.email,
                                           message |-> contact.message]))]
    /\ UNCHANGED otherThanContact

\* the relay settles the send call in flight and sendEmail continues
RelaySettles(i, outcome) ==
    /\ contact.calls[i].relay = Pending
    /\ contact' =
          [contact EXCEPT !.calls[i] = SendEmailSettles(@, outcome)]
    /\ UNCHANGED otherThanContact

\* the promise of sendContactEmail has resolved: form.reset() and
\* toast("Message sent successfully")
OnSubmitResumes ==
    /\ contact.pc = "submitting"
    /\ contact' =
          [contact EXCEPT
              !.name = "", !.email = <<>>, !.message = "",
              !.resets = @ + 1,
              !.toasts = @ + 1,
              !.calls[Len(contact.calls)].confirmed = TRUE,
              !.pc = "idle"]
    /\ UNCHANGED otherThanContact

NextContact ==
    \/ \E v \in Names : ChangeName(v)
    \/ \E v \in Emails : ChangeEmail(v)
    \/ \E v \in Messages : ChangeMessage(v)
    \/ Submit
    \/ \E i \in 1..Len(contact.calls), outcome \in RelayOutcomes :
          RelaySettles(i, outcome)
    \/ OnSubmitResumes

SpecContact == InitContact /\ [][NextContact]_vars

----------------------------------------------------------------------------
(* ShareButtons: the share links and Copy link *)

\* window.location.href
Location == "https://site/current"

\* the url prop: absent, or the address of the page
UrlProps == {"", "https://site/writing/b"}

InitShare ==
    /\ \E url \in UrlProps : share = [NoShare EXCEPT !.url = url]
    /\ IdleContact
    /\ IdleSlug
    /\ IdleReadTime
    /\ IdleBuild
    /\ IdleValidate
    /\ IdleSite

otherThanShare ==
    <<contact, slugVars, rtVars, buildVars, valVars, siteVars>>

\* onClick of the X, LinkedIn and Facebook buttons:
\* setShareUrl(url || window.location.href)
ClickShare ==
    /\ share' = [share EXCEPT
                    !.shareUrl = IF share.url # "" THEN share.url
                                 ELSE Location]
    /\ UNCHANGED otherThanShare

\* handleCopyLink up to its await: navigator.clipboard.writeText(shareUrl)
ClickCopy ==
    /\ Len(share.writes) < MaxCopies
    /\ share' = [share EXCEPT
                    !.writes = Append(@, [text |-> share.shareUrl,
                                          status |-> "pending"])]
    /\ UNCHANGED otherThanShare

\* the write resolves: setCopied(true); setTimeout(() => setCopied(false),
\* 2000)
WriteSucceeds(i) ==
    /\ share.writes[i].status = "pending"
    /\ share' = [share EXCEPT
                    !.writes[i].status = "written",
                    !.clipboard = <<share.writes[i].text>>,
                    !.copied = TRUE,
                    !.timers = @ \cup {share.timerCount + 1},
                    !.timerCount = @ + 1]
    /\ UNCHANGED otherThanShare

\* the write rejects: console.error
WriteFails(i) ==
    /\ share.writes[i].status = "pending"
    /\ share' = [share EXCEPT !.writes[i].status = "failed"]
    /\ UNCHANGED otherThanShare

\* a timer fires: setCopied(false)
TimerFires(t) ==
    /\ t \in share.timers
    /\ share' = [share EXCEPT !.copied = FALSE, !.timers = @ \ {t}]
    /\ UNCHANGED otherThanShare

NextShare ==
    \/ ClickShare
    \/ ClickCopy
    \/ \E i \in 1..Len(share.writes) : WriteSucceeds(i)
    \/ \E i \in 1..Len(share.writes) : WriteFails(i)
    \/ \E t \in share.timers : TimerFires(t)

SpecShare == InitShare /\ [][NextShare]_vars

----------------------------------------------------------------------------
(* Claims about the slug *)

Max(S) == CHOOSE x \in S : \A y \in S : x >= y

\* the file name with its final extension removed
StripExtension(name) ==
    SubSeq(name, 1, Max({i \in 1..Len(name) : name[i] = "."}) - 1)

\* extension removed, every space replaced by a hyphen, lowercased
NormalisedStem(name) == ToLowerCase(ReplaceAll(StripExtension(name), " ", "-"))

\* C1: the slug derived for a file the include pattern matches is the file
\* name with its extension removed, every space replaced by a hyphen and the
\* result lowercased, no other character removed or changed.
C1_SlugIsNormalisedStem ==
    slugPc = "done" => slugOut = NormalisedStem(fileName)

----------------------------------------------------------------------------
(* Claims about the read time *)

Max2(a, b) == IF a >= b THEN a ELSE b

MinRead(n) == Append(NumberToString(n), " min read")

\* the words left after tags and fenced code blocks are removed
WordsLeft(text) == NonEmptyTokens(cleanText(text))

\* C3: readTime gives "<N> min read" with N = max(1, ceil(W / 300)), W the
\* words left after tags and fences are removed; a body of exactly 600 words
\* and no fence gives "2 min read" whatever whitespace separates the words.
C3_ReadTimeCountsWords ==
    rtPc = "done" =>
        /\ rtOut = MinRead(Max2(1, Ceil(WordsLeft(content), 300)))
        /\ (/\ \A i \in 1..Len(content) : content[i] \notin {"FENCE", "<", ">"}
            /\ NonEmptyTokens(content) = 600)
           => rtOut = <<"2", " min read">>

Digits == {"0", "1", "2", "3", "4", "5", "6", "7", "8", "9"}

\* s is the decimal numeral of an integer N >= 1 followed by " min read"
IsMinReadOfPositive(s) ==
    /\ Len(s) >= 2
    /\ s[Len(s)] = " min read"
    /\ \A i \in 1..(Len(s) - 1) : s[i] \in Digits
    /\ s[1] # "0"

\* C4: for every body, the empty body and a body of only tags or only a
\* fenced block included, readTime returns "<N> min read" with N an integer
\* and N >= 1.
C4_ReadTimeAtLeastOne == rtPc = "done" => IsMinReadOfPositive(rtOut)

\* witness of C4: the read time of the empty body, of a body that is one
\* tag and of a body that is one fenced block has been computed
C4_Witness ==
    /\ rtPc = "done"
    /\ content \in {<<>>, <<"<", "W1", ">">>, <<"FENCE", "W300", "FENCE">>}
    /\ rtOut = <<"1", " min read">>

\* the item at i lies behind an odd number of fence delimiters: inside a
\* fenced code block, closed or left open at the end of the text
InsideFence(text, i) ==
    /\ text[i] # "FENCE"
    /\ Cardinality({k \in 1..(i - 1) : text[k] = "FENCE"}) % 2 = 1

\* the item at i lies between a "<" and the next ">"
InsideTag(text, i) ==
    /\ text[i] # ">"
    /\ \E j \in 1..(i - 1) :
          /\ text[j] = "<"
          /\ \A k \in (j + 1)..(i - 1) : text[k] # ">"
    /\ \E k \in (i + 1)..Len(text) : text[k] = ">"

RemoveAt(text, i) == SubSeq(text, 1, i - 1) \o SubSeq(text, i + 1, Len(text))

\* C5: words inside a fenced code block (closed or not) or inside a tag never
\* contribute: removing such words leaves the read time unchanged.
C5_FencedAndTaggedWordsNotCounted ==
    rtPc = "done" =>
        \A i \in 1..Len(content) :
            (/\ WordsOf(content[i]) > 0
             /\ InsideFence(content, i) \/ InsideTag(content, i))
            => readTime(RemoveAt(content, i)) = rtOut

----------------------------------------------------------------------------
(* Claims about the collections of a build *)

Records(collection) == IF collection = "posts" THEN allPosts ELSE allProjects

\* the source document has a record in its collection
HasRecord(d) ==
    \E i \in 1..Len(Records(d.collection)) :
        Records(d.collection)[i]._meta.fileName = d.fileName

RecordOf(d) ==
    LET rs == Records(d.collection)
    IN  rs[CHOOSE i \in 1..Len(rs) : rs[i]._meta.fileName = d.fileName]

\* C2: no collection holds two records of one slug.
C2_SlugsUniqueInCollection ==
    \A c \in {"posts", "projects"} :
        \A i, j \in 1..Len(Records(c)) :
            i # j => Records(c)[i].slug # Records(c)[j].slug

\* C6: a post whose publishDate string is not a parseable date never becomes
\* a record, and no record of the posts collection carries an invalid
\* publishDate.
C6_UnparseableDateNeverRecord ==
    /\ \A i \in 1..Len(allPosts) : allPosts[i].publishDate.valid
    /\ \A d \in loaded :
          (/\ d.collection = "posts"
           /\ "publishDate" \in DOMAIN d.data
           /\ d.data.publishDate.type = "string"
           /\ d.data.publishDate.str \notin {"2024-01-01", "2025-10-25"})
          => ~HasRecord(d)

PostFields ==
    {"title", "publishDate", "description", "category", "tags", "thumbnail",
     "author"}
ProjectRequiredFields ==
    {"name", "year", "studyCase", "description", "techStack", "thumbnail"}
ProjectOptionalFields == {"linkLive", "linkGithub"}

MetadataFields(collection) ==
    IF collection = "posts" THEN PostFields
    ELSE ProjectRequiredFields \cup ProjectOptionalFields

\* the record of d exposes every metadata field d gives
ExposesMetadata(d) ==
    \A f \in MetadataFields(d.collection) \cap DOMAIN d.data :
        /\ f \in DOMAIN RecordOf(d)
        /\ f # "publishDate" => RecordOf(d)[f] = ValueOf(d.data[f])

RequiredFields(collection) ==
    IF collection = "posts" THEN PostFields ELSE ProjectRequiredFields

\* the value is of the type the field is declared with
TypeCorrect(f, v) ==
    IF f \in {"tags", "techStack"}
    THEN v.type = "array" /\ \A i \in 1..Len(v.items) : v.items[i].type = "string"
    ELSE IF f = "year" THEN v.type = "number"
    ELSE v.type = "string"

\* the failure reports of d
FailuresOf(d) ==
    {x \in failures : x.collection = d.collection /\ x.fileName = d.fileName}

\* C8: a document becomes a record only if every required field of its kind
\* is present and type-correct; a document that only misses required fields
\* fails validation naming exactly the missing fields and has no record; a
\* project that omits linkLive and/or linkGithub still validates.
C8_RequiredFieldsEnforced ==
    \A d \in loaded :
        LET required == RequiredFields(d.collection)
            missing == required \ DOMAIN d.data
            presentOk ==
                \A f \in MetadataFields(d.collection) \cap DOMAIN d.data :
                    TypeCorrect(f, d.data[f])
        IN  /\ HasRecord(d) => missing = {} /\ presentOk
            /\ (missing # {} /\ presentOk) =>
                  /\ ~HasRecord(d)
                  /\ \E x \in FailuresOf(d) :
                        {i.path : i \in x.issues} = missing
            /\ (missing = {} /\ presentOk) => HasRecord(d) /\ FailuresOf(d) = {}

\* witness of C8: a post without tags failed naming exactly tags and has no
\* record, and a project without both links has a record
C8_Witness ==
    /\ \E d \in loaded :
          /\ d.collection = "posts"
          /\ PostFields \ DOMAIN d.data = {"tags"}
          /\ ~HasRecord(d)
          /\ \E x \in FailuresOf(d) : {i.path : i \in x.issues} = {"tags"}
    /\ \E d \in loaded :
          /\ d.collection = "projects"
          /\ DOMAIN d.data = ProjectRequiredFields
          /\ HasRecord(d)

----------------------------------------------------------------------------
(* Claims about validation *)

\* the fields the issues of the validation result name
NamedFields == {i.path : i \in valOut.issues}

\* the required fields the front-matter does not give
MissingFields ==
    RequiredFields(frontMatter.collection) \ DOMAIN frontMatter.data

\* the declared fields the front-matter gives with a value of another type
MistypedFields ==
    {f \in MetadataFields(frontMatter.collection) \cap DOMAIN frontMatter.data :
        ~TypeCorrect(f, frontMatter.data[f])}

\* C11: validation accumulates every field error of a document in one
\* pass: the one report of a document names every missing required field
\* and every mistyped field, so a document missing two required fields A and
\* B is reported with both A and B, never only the first.
C11_AllFieldErrorsReported ==
    valPc = "done" =>
        /\ NamedFields = MissingFields \cup MistypedFields
        /\ valOut.success <=> MissingFields \cup MistypedFields = {}

\* witness of C11: a document that misses two required fields has been
\* validated and the report names both
C11_Witness ==
    /\ valPc = "done"
    /\ Cardinality(MissingFields) = 2
    /\ ~valOut.success
    /\ MissingFields \subseteq NamedFields

\* C12: the validator never coerces across types: a string given for tags
\* or techStack is a validation error naming that field, a year that is not
\* a number (a string, numeral or not) is a validation error naming year,
\* and an accepted value is exposed as it was given.
C12_NoCoercion ==
    valPc = "done" =>
        LET data == frontMatter.data
        IN  /\ \A f \in {"tags", "techStack", "year"} \cap DOMAIN data
                        \cap MetadataFields(frontMatter.collection) :
                  (/\ data[f].type = "string"
                   /\ data[f].str \in {"a, b", "2024", "2024abc"})
                  => ~valOut.success /\ f \in NamedFields
            /\ valOut.success =>
                  \A f \in {"tags", "techStack", "year"} \cap DOMAIN valOut.data :
                      valOut.data[f] = ValueOf(data[f])

\* witness of C12: a project whose techStack is a comma-separated string and
\* whose year is a numeral string has been rejected naming both
C12_Witness ==
    /\ valPc = "done"
    /\ frontMatter.collection = "projects"
    /\ {"techStack", "year"} \subseteq DOMAIN frontMatter.data
    /\ frontMatter.data.techStack = Str("a, b")
    /\ frontMatter.data.year = Str("2024")
    /\ ~valOut.success
    /\ {"techStack", "year"} \subseteq NamedFields

\* the fields of the front-matter its schema does not declare
Undeclared == DOMAIN frontMatter.data \ MetadataFields(frontMatter.collection)

\* C13: a front-matter field the schema of the kind does not declare never
\* causes a validation failure: a document whose declared fields are valid
\* validates whatever undeclared fields it holds, no issue ever names an
\* undeclared field, and the validated values are those of the declared
\* fields.
C13_UndeclaredFieldsIgnored ==
    valPc = "done" =>
        LET data == frontMatter.data
            declared == DOMAIN data \cap MetadataFields(frontMatter.collection)
        IN  /\ NamedFields \cap Undeclared = {}
            /\ (MissingFields = {} /\ MistypedFields = {}) =>
                  /\ valOut.success
                  /\ valOut.data = [f \in declared |-> ValueOf(data[f])]

\* witness of C13: a document with undeclared fields has validated
C13_Witness ==
    /\ valPc = "done"
    /\ {"draft", "slug"} \subseteq Undeclared
    /\ valOut.success

----------------------------------------------------------------------------
(* Claims about derived fields and exposed strings *)

\* the front-matter names its own slug, readTime and html
AuthorsDerived(d) == {"slug", "readTime", "html"} \subseteq DOMAIN d.data

\* C14: slug, readTime and the compiled body of a record are always the
\* values the pipeline computes from the file name and the body, also when
\* the front-matter holds entries named slug, readTime or html: a post
\* record has the computed read time and a project record, for which no read
\* time is computed, exposes none.
C14_DerivedNeverAuthored ==
    \A d \in loaded :
        HasRecord(d) =>
            /\ RecordOf(d).slug = Slug(d.fileName)
            /\ RecordOf(d).html = compileMarkdown([content |-> d.content])
            /\ IF d.collection = "posts"
               THEN RecordOf(d).readTime = readTime(d.content)
               ELSE "readTime" \notin DOMAIN RecordOf(d)

\* witness of C14: a post and a project whose front-matter names slug,
\* readTime and html both have a record
C14_Witness ==
    /\ \E d \in loaded :
          d.collection = "posts" /\ AuthorsDerived(d) /\ HasRecord(d)
    /\ \E d \in loaded :
          d.collection = "projects" /\ AuthorsDerived(d) /\ HasRecord(d)

\* the string neither begins nor ends with a space
IsTrimmed(s) ==
    Len(s) = 0 \/ (SubSeq(s, 1, 1) # " " /\ SubSeq(s, Len(s), Len(s)) # " ")

StringFields(collection) ==
    MetadataFields(collection) \ {"tags", "techStack", "year", "publishDate"}

\* C15: every validated string metadata field is exposed trimmed: no
\* string field of a record begins or ends with whitespace.
C15_StringsExposedTrimmed ==
    \A c \in {"posts", "projects"} :
        \A i \in 1..Len(Records(c)) :
            \A f \in StringFields(c) \cap DOMAIN Records(c)[i] :
                IsTrimmed(Records(c)[i][f])

----------------------------------------------------------------------------
(* Claims about the pages *)

\* some record of the collection has the slug
HasSlug(rs, slug) == \E i \in 1..Len(rs) : rs[i].slug = slug

\* the records of the sequence, as a set
Elements(rs) == {rs[i] : i \in 1..Len(rs)}

\* C18: looking a record up by slug gives a record of the collection whose
\* slug is the requested slug, or not-found when no record has it: PostPage
\* and ProjectPage render the record of that slug when one exists and call
\* notFound() otherwise, and generateMetadata returns the not-found title and
\* description exactly when no record has that slug.
C18_LookupBySlug ==
    /\ rendered.page = "post" =>
          IF HasSlug(allPosts, rendered.slug)
          THEN /\ rendered.status = "ok"
               /\ Len(rendered.records) = 1
               /\ rendered.records[1] \in Elements(allPosts)
               /\ rendered.records[1].slug = rendered.slug
          ELSE rendered.status = "notFound" /\ rendered.records = <<>>
    /\ rendered.page = "project" =>
          IF HasSlug(allProjects, rendered.slug)
          THEN /\ rendered.status = "ok"
               /\ Len(rendered.projects) = 1
               /\ rendered.projects[1] \in Elements(allProjects)
               /\ rendered.projects[1].slug = rendered.slug
          ELSE rendered.status = "notFound" /\ rendered.projects = <<>>
    /\ rendered.page = "postMetadata" =>
          /\ (/\ rendered.title = "Post Not Found"
              /\ rendered.description = "Post Not Found")
             <=> ~HasSlug(allPosts, rendered.slug)
          /\ HasSlug(allPosts, rendered.slug) =>
                \E post \in Elements(allPosts) :
                    /\ post.slug = rendered.slug
                    /\ rendered.title = post.title
                    /\ rendered.description = post.description
    /\ rendered.page = "projectMetadata" =>
          /\ (/\ rendered.title = "Not Found"
              /\ rendered.description = "Project not found")
             <=> ~HasSlug(allProjects, rendered.slug)
          /\ HasSlug(allProjects, rendered.slug) =>
                \E project \in Elements(allProjects) :
                    /\ project.slug = rendered.slug
                    /\ rendered.title = project.name
                    /\ rendered.description = project.description

\* witness of C18: the project page has rendered the record of the requested
\* slug, which is not the first record of the collection
C18_Witness ==
    /\ rendered.page = "project"
    /\ rendered.status = "ok"
    /\ Len(allProjects) = 2
    /\ allProjects[1].slug # rendered.slug
    /\ rendered.projects = <<allProjects[2]>>

\* C19: consumers never mutate a collection: no render of the home page,
\* the writing list, the projects list, a detail page, its metadata or the
\* sitemap changes allPosts or allProjects, so both hold the records of the
\* build in the order of the build after any sequence of renders.
C19_ConsumersNeverMutate ==
    [][allPosts' = allPosts /\ allProjects' = allProjects]_vars

\* witness of C19: the writing page has listed the posts in another order
\* than the collection holds them
C19_Witness ==
    /\ rendered.page = "writing"
    /\ Len(allPosts) >= 2
    /\ rendered.records # allPosts

\* one sequence is a reordering of the other
IsPermutation(xs, ys) ==
    /\ Len(xs) = Len(ys)
    /\ \E p \in Orders(Len(xs)) : xs = Reordered(ys, p)

\* C20: the writing page does not rely on collection order: for every
\* collection order, the posts it lists are a permutation of allPosts in
\* which no post comes before a post of a later publishDate.
C20_WritingListNewestFirst ==
    rendered.page = "writing" =>
        /\ IsPermutation(rendered.records, allPosts)
        /\ \A i, j \in 1..Len(rendered.records) :
              (/\ i < j
               /\ rendered.records[i].publishDate.valid
               /\ rendered.records[j].publishDate.valid)
              => rendered.records[i].publishDate.day
                     >= rendered.records[j].publishDate.day

\* C21: every slug is a URL-safe stable address: following the link
\* /writing/<slug> or /projects/<slug> built from the slug of a record
\* reaches a page whose lookup by the received slug parameter finds that
\* same record.
C21_LinkReachesRecord ==
    /\ rendered.page = "postLink" =>
          /\ rendered.slug = rendered.from[1].slug
          /\ rendered.records = rendered.from
    /\ rendered.page = "projectLink" =>
          /\ rendered.slug = rendered.from[1].slug
          /\ rendered.projects = rendered.from

\* C25: getLatestPost returns null exactly when allPosts is empty, and
\* otherwise returns a post of allPosts that no post of allPosts is newer
\* than.
C25_LatestPostIsNewest ==
    rendered.page = "home" =>
        /\ rendered.records = <<>> <=> allPosts = <<>>
        /\ rendered.records # <<>> =>
              /\ rendered.records[1] \in Elements(allPosts)
              /\ \A post \in Elements(allPosts) :
                    (/\ post.publishDate.valid
                     /\ rendered.records[1].publishDate.valid)
                    => rendered.records[1].publishDate.day
                           >= post.publishDate.day

\* C26: every link to a post that the site emits (home page latest-post
\* link, writing list, sitemap) has the path /writing/<slug> with the slug
\* of a record of allPosts.
C26_PostLinksTargetWritingRoute ==
    \A i \in 1..Len(rendered.links) :
        /\ rendered.links[i].path = "/writing/"
        /\ HasSlug(allPosts, rendered.links[i].slug)

\* the url of a sitemap entry
SiteUrl(path, slug) ==
    [site |-> "NEXT_PUBLIC_SITE_URL", path |-> path, slug |-> slug]

\* C27: sitemap() returns exactly 3 + |allPosts| + |allProjects| entries:
\* the three static entries (site root, /writing, /projects) first, then one
\* entry per post with url <site>/writing/<slug> and lastModified equal to
\* the publishDate of that post, then one entry per project with url
\* <site>/projects/<slug>, each group in collection order.
C27_SitemapEntries ==
    rendered.page = "sitemap" =>
        LET entries == rendered.records
            n == Len(allPosts)
        IN  /\ Len(entries) = 3 + n + Len(allProjects)
            /\ entries[1].url = SiteUrl("", <<>>)
            /\ entries[2].url = SiteUrl("/writing", <<>>)
            /\ entries[3].url = SiteUrl("/projects", <<>>)
            /\ \A i \in 1..n :
                  /\ entries[3 + i].url = SiteUrl("/writing/", allPosts[i].slug)
                  /\ entries[3 + i].lastModified = allPosts[i].publishDate
            /\ \A j \in 1..Len(allProjects) :
                  entries[3 + n + j].url =
                      SiteUrl("/projects/", allProjects[j].slug)

\* witness of C27: the sitemap of two posts of different dates and two
\* projects has been returned
C27_Witness ==
    /\ rendered.page = "sitemap"
    /\ Len(allPosts) = 2
    /\ allPosts[1].publishDate # allPosts[2].publishDate
    /\ Len(allProjects) = 2
    /\ Len(rendered.records) = 7

----------------------------------------------------------------------------
(* Claims about the contact form *)

\* C22: the contact form reports success only after the email was actually
\* sent: the form reset and the toast of a submission happen only after the
\* relay call made for it has completed successfully.
C22_SuccessOnlyAfterSent ==
    \A i \in 1..Len(contact.calls) :
        contact.calls[i].confirmed =>
            contact.calls[i].relay = [kind |-> "returns", value |-> "data"]

\* C23: sendEmail never swallows a relay failure: when the send call of the
\* relay throws, sendEmail logs the error and rethrows the same error; when
\* the call does not throw, sendEmail returns the response of the relay and
\* logs nothing; while the call is in flight sendEmail has not settled; one
\* send is attempted per call.
C23_SendEmailRethrows ==
    \A i \in 1..Len(contact.calls) :
        LET call == contact.calls[i]
        IN  /\ call.attempts = 1
            /\ call.relay = Pending =>
                  call.result = Pending /\ call.logged = <<>>
            /\ call.relay.kind = "throws" =>
                  /\ call.result = [kind |-> "throws",
                                    value |-> call.relay.value]
                  /\ call.logged = <<call.relay.value>>
            /\ call.relay.kind = "returns" =>
                  call.result = call.relay /\ call.logged = <<>>

\* witness of C23: one send call has thrown and one has returned a response
C23_Witness ==
    \E i, j \in 1..Len(contact.calls) :
        /\ contact.calls[i].relay.kind = "throws"
        /\ contact.calls[i].result.kind = "throws"
        /\ contact.calls[j].relay.kind = "returns"
        /\ contact.calls[j].result.kind = "returns"

----------------------------------------------------------------------------
(* Claims about the share buttons *)

\* the address of the page: the url prop when given, otherwise the current
\* window location
PageAddress == IF share.url # "" THEN share.url ELSE Location

\* C28: clicking Copy link writes the address of the page to the clipboard
\* in every state of the component, also when no share button has been
\* clicked before.
C28_CopyWritesPageAddress ==
    /\ \A i \in 1..Len(share.writes) : share.writes[i].text = PageAddress
    /\ share.clipboard # <<>> => share.clipboard = <<PageAddress>>

\* C29: the copied indicator is true only after a clipboard write has
\* succeeded, a failed write leaves it false, and after several successful
\* copies in quick succession it stays true until the timer of the most
\* recent copy fires.
C29_CopiedUntilLastTimerFires ==
    /\ share.copied =>
          \E i \in 1..Len(share.writes) : share.writes[i].status = "written"
    /\ share.copied => share.timers # {}
    /\ (share.timerCount > 0 /\ share.timerCount \in share.timers) =>
          share.copied

====
